---- MODULE Spec2Model ----
(***************************************************************************)
(* Model of src/app.py: the weather lookup (get_weather), the tool         *)
(* dispatcher (execute_tool_call), the per-turn conversation loop          *)
(* (chat_with_groq) and the clear-history button of main.                  *)
(*                                                                         *)
(* Text is modelled by TLA+ strings, built with \o where the source uses   *)
(* f-strings.  A Python call that may raise is modelled by an operator     *)
(* returning a record with a `raised` flag.                                *)
(***************************************************************************)
EXTENDS FiniteSets, Integers, Sequences, TLC

VARIABLES
    messages,    \* st.session_state.messages
    pc,          \* position of the session inside chat_with_groq
    request,     \* keyword arguments of the latest completions.create call
    tool_calls,  \* tool_calls of the latest completion response
    i,           \* number of iterations of the for-loop of line 167 completed
    returned,    \* value returned by the latest chat_with_groq call
    nextId,      \* the completion provider's next correlation identifier
    turns,       \* observer: turns started since the history was last empty
    toolTurns,   \* observer: of those, turns whose first response asked for tools
    calls,       \* observer: completion calls made in the current turn
    dispatched,  \* observer: execute_tool_call invocations in the current turn
    lookups,     \* observer: get_weather invocations in the current turn
    turnBase,    \* observer: Len(messages) when the current turn started
    last,        \* observer: label of the latest step
    clears,      \* observer: clear-history clicks since the latest other step
    dropped,     \* observer: messages those clicks discarded
    u_call,      \* single call: tool call handed to execute_tool_call
    u_city,      \* single call: city handed to get_weather
    u_outcome,   \* single call: what the weather provider does with the fetch
    u_dispatch,  \* single call: <<>> or <<outcome of execute_tool_call>>
    u_lookup     \* single call: <<>> or <<outcome of get_weather>>

sessionVars == <<messages, pc, request, tool_calls, i, returned, nextId, turns,
                 toolTurns, calls, dispatched, lookups, turnBase, last, clears,
                 dropped>>
unitVars == <<u_call, u_city, u_outcome, u_dispatch, u_lookup>>
vars == <<sessionVars, unitVars>>

(***************************************************************************)
(* Bounds of the model.                                                    *)
(***************************************************************************)
MaxTurns == 2
MaxIds == 2
MaxClears == 2

(***************************************************************************)
(* Text helpers.                                                           *)
(***************************************************************************)
None == "<None>"

Contains(s, t) ==
    \E p \in 1..(Len(s) - Len(t) + 1) : SubSeq(s, p, p + Len(t) - 1) = t

Digit(d) ==
    CASE d = 0 -> "0" [] d = 1 -> "1" [] d = 2 -> "2" [] d = 3 -> "3"
      [] d = 4 -> "4" [] d = 5 -> "5" [] d = 6 -> "6" [] d = 7 -> "7"
      [] d = 8 -> "8" [] d = 9 -> "9"

RECURSIVE NatStr(_)
NatStr(n) == IF n < 10 THEN Digit(n) ELSE NatStr(n \div 10) \o Digit(n % 10)

\* str() of an integer, as an f-string interpolates it
Str(n) == IF n < 0 THEN "-" \o NatStr(0 - n) ELSE NatStr(n)

LowerLetters == <<"a", "b", "c", "d", "e", "f", "g", "h", "i", "j", "k", "l", "m",
                  "n", "o", "p", "q", "r", "s", "t", "u", "v", "w", "x", "y", "z">>
UpperLetters == <<"A", "B", "C", "D", "E", "F", "G", "H", "I", "J", "K", "L", "M",
                  "N", "O", "P", "Q", "R", "S", "T", "U", "V", "W", "X", "Y", "Z">>

Upper(c) ==
    IF \E k \in 1..26 : LowerLetters[k] = c
    THEN UpperLetters[CHOOSE k \in 1..26 : LowerLetters[k] = c]
    ELSE c

Lower(c) ==
    IF \E k \in 1..26 : UpperLetters[k] = c
    THEN LowerLetters[CHOOSE k \in 1..26 : UpperLetters[k] = c]
    ELSE c

RECURSIVE LowerAll(_)
LowerAll(s) ==
    IF Len(s) = 0 THEN ""
    ELSE Lower(SubSeq(s, 1, 1)) \o LowerAll(SubSeq(s, 2, Len(s)))

\* str.capitalize(): first character upper-cased, the rest lower-cased
Capitalize(s) ==
    IF Len(s) = 0 THEN ""
    ELSE Upper(SubSeq(s, 1, 1)) \o LowerAll(SubSeq(s, 2, Len(s)))

(***************************************************************************)
(* The weather provider.  An outcome of the single GET is either a         *)
(* transport failure (requests.get raises) or a response with a status     *)
(* code and a body; a body is JSON text or not, and its JSON value may     *)
(* lack members.                                                           *)
(***************************************************************************)
OPENWEATHER_API_KEY == "KEY"

Url(city) ==
    "http://api.openweathermap.org/data/2.5/weather?q=" \o city
        \o "&appid=" \o OPENWEATHER_API_KEY \o "&units=metric"

FullData ==
    [name |-> "London",
     sys |-> [country |-> "GB"],
     main |-> [temp |-> 15, feels_like |-> -2, humidity |-> 70],
     weather |-> <<[description |-> "light RAIN"]>>,
     wind |-> [speed |-> 4]]

NoWindData ==
    [name |-> "London",
     sys |-> [country |-> "GB"],
     main |-> [temp |-> 15, feels_like |-> -2, humidity |-> 70],
     weather |-> <<[description |-> "light RAIN"]>>]

NoConditionData ==
    [name |-> "London",
     sys |-> [country |-> "GB"],
     main |-> [temp |-> 15, feels_like |-> -2, humidity |-> 70],
     weather |-> <<>>,
     wind |-> [speed |-> 4]]

ErrorData == [cod |-> "404", message |-> "city not found"]

Bodies ==
    {[json |-> TRUE, data |-> FullData],
     [json |-> TRUE, data |-> NoWindData],
     [json |-> TRUE, data |-> NoConditionData],
     [json |-> TRUE, data |-> ErrorData],
     [json |-> FALSE, data |-> ErrorData]}

WellFormed(body) == body.json /\ body.data = FullData

Statuses == {200, 304, 404, 500}

TransportFailure == [kind |-> "transport", status |-> 0, body |-> [json |-> FALSE, data |-> ErrorData]]

Outcomes ==
    {TransportFailure}
        \cup [kind : {"response"}, status : Statuses, body : Bodies]

Cities == {"London", "Zzqqxx"}

\* Response.raise_for_status(): HTTPError for a 4xx or 5xx status, else nothing
RaisesForStatus(status) == 400 <= status /\ status < 600

\* str() of the HTTPError raised by raise_for_status
HTTPErrorStr(status, city) ==
    Str(status) \o (IF status < 500 THEN " Client Error" ELSE " Server Error")
        \o " for url: " \o Url(city)

\* lines 65-73: the member accesses, in order; the first missing one raises
Extract(data) ==
    LET miss(k) == [raised |-> TRUE, exc |-> "'" \o k \o "'", value |-> <<>>]
    IN  IF "name" \notin DOMAIN data THEN miss("name")
        ELSE IF "sys" \notin DOMAIN data THEN miss("sys")
        ELSE IF "country" \notin DOMAIN data.sys THEN miss("country")
        ELSE IF "main" \notin DOMAIN data THEN miss("main")
        ELSE IF "temp" \notin DOMAIN data.main THEN miss("temp")
        ELSE IF "feels_like" \notin DOMAIN data.main THEN miss("feels_like")
        ELSE IF "humidity" \notin DOMAIN data.main THEN miss("humidity")
        ELSE IF "weather" \notin DOMAIN data THEN miss("weather")
        ELSE IF Len(data.weather) = 0
             THEN [raised |-> TRUE, exc |-> "list index out of range", value |-> <<>>]
        ELSE IF "description" \notin DOMAIN data.weather[1] THEN miss("description")
        ELSE IF "wind" \notin DOMAIN data THEN miss("wind")
        ELSE IF "speed" \notin DOMAIN data.wind THEN miss("speed")
        ELSE [raised |-> FALSE, exc |-> "",
              value |-> [city |-> data.name,
                         country |-> data.sys.country,
                         temperature |-> data.main.temp,
                         feels_like |-> data.main.feels_like,
                         humidity |-> data.main.humidity,
                         description |-> data.weather[1].description,
                         wind_speed |-> data.wind.speed]]

NotFoundError(city) == "City '" \o city \o "' not found. Please check the spelling."

Success(info) == [success |-> TRUE, data |-> info, error |-> ""]
Failure(reason) == [success |-> FALSE, data |-> <<>>, error |-> reason]

\* variant of HandleHTTPError: the 404 branch is missing
HandleHTTPError_NoNotFound(status, city) ==
    Failure("HTTP error occurred: " \o HTTPErrorStr(status, city))

\* lines 80-84: the handler of requests.exceptions.HTTPError
HandleHTTPError(status, city) ==
    IF status = 404
    THEN Failure(NotFoundError(city))
    ELSE Failure("HTTP error occurred: " \o HTTPErrorStr(status, city))

\* lines 42-86
get_weather(city, outcome) ==
    IF outcome.kind = "transport"
    THEN Failure("Error fetching weather data: " \o "Connection refused")
    ELSE IF RaisesForStatus(outcome.status)
    THEN HandleHTTPError(outcome.status, city)
    ELSE IF ~outcome.body.json
    THEN Failure("Error fetching weather data: "
                    \o "Expecting value: line 1 column 1 (char 0)")
    ELSE LET x == Extract(outcome.body.data)
         IN  IF x.raised
             THEN Failure("Error fetching weather data: " \o x.exc)
             ELSE Success(x.value)


(***************************************************************************)
(* The tool dispatcher.                                                    *)
(***************************************************************************)
Quote == "\""

\* json.loads on the argument payloads a completion response can carry:
\* an object with no member or with one string member, an empty array;
\* any other text raises JSONDecodeError
JsonLoads(s) ==
    LET n == Len(s)
        inner == SubSeq(s, 3, n - 2)
        sep == Quote \o ": " \o Quote
        cut == {p \in 1..(Len(inner) - Len(sep) + 1) :
                    SubSeq(inner, p, p + Len(sep) - 1) = sep}
        bad == [raised |-> TRUE, exc |-> "Expecting value: line 1 column 1 (char 0)",
                type |-> "", value |-> <<>>]
    IN  IF s = "{}" THEN [raised |-> FALSE, exc |-> "", type |-> "dict", value |-> <<>>]
        ELSE IF s = "[]" THEN [raised |-> FALSE, exc |-> "", type |-> "list", value |-> <<>>]
        ELSE IF n >= 4 + Len(sep)
                /\ SubSeq(s, 1, 2) = "{" \o Quote
                /\ SubSeq(s, n - 1, n) = Quote \o "}"
                /\ Cardinality(cut) = 1
             THEN LET p == CHOOSE q \in cut : TRUE
                      key == SubSeq(inner, 1, p - 1)
                      val == SubSeq(inner, p + Len(sep), Len(inner))
                  IN  IF Contains(key, Quote) \/ Contains(val, Quote)
                      THEN bad
                      ELSE [raised |-> FALSE, exc |-> "", type |-> "dict",
                            value |-> (key :> val)]
        ELSE bad

\* arguments["city"] on the parsed payload
Subscript(parsed, key) ==
    IF parsed.type = "list"
    THEN [raised |-> TRUE, exc |-> "list indices must be integers or slices, not str",
          value |-> ""]
    ELSE IF key \notin DOMAIN parsed.value
    THEN [raised |-> TRUE, exc |-> "'" \o key \o "'", value |-> ""]
    ELSE [raised |-> FALSE, exc |-> "", value |-> parsed.value[key]]

\* lines 107-111
Render(data) ==
    "Weather in " \o data.city \o ", " \o data.country \o ":\n"
        \o "- Temperature: " \o Str(data.temperature) \o "°C (feels like "
        \o Str(data.feels_like) \o "°C)\n"
        \o "- Conditions: " \o Capitalize(data.description) \o "\n"
        \o "- Humidity: " \o Str(data.humidity) \o "%\n"
        \o "- Wind Speed: " \o Str(data.wind_speed) \o " m/s"

Raised(e, n) == [raised |-> TRUE, exc |-> e, value |-> "", lookups |-> n]
Returned(v, n) == [raised |-> FALSE, exc |-> "", value |-> v, lookups |-> n]

\* lines 89-117; `lookups` counts the get_weather invocations made
execute_tool_call(tool_call, outcome) ==
    LET function_name == tool_call.function.name
        arguments == JsonLoads(tool_call.function.arguments)
    IN  IF arguments.raised THEN Raised(arguments.exc, 0)
        ELSE IF function_name = "get_weather"
        THEN LET city == Subscript(arguments, "city")
             IN  IF city.raised THEN Raised(city.exc, 0)
                 ELSE LET result == get_weather(city.value, outcome)
                      IN  IF result.success
                          THEN Returned(Render(result.data), 1)
                          ELSE Returned(result.error, 1)
        ELSE Returned("Unknown tool", 0)

ToolNames == {"get_weather", "get_time"}

CityPayload(city) ==
    "{" \o Quote \o "city" \o Quote \o ": " \o Quote \o city \o Quote \o "}"

Payloads ==
    {CityPayload("London"),
     CityPayload("Zzqqxx"),
     "{" \o Quote \o "town" \o Quote \o ": " \o Quote \o "London" \o Quote \o "}",
     "{}",
     "[]",
     "{" \o Quote \o "city" \o Quote \o ": "}

\* a tool call object of a completion response: tc.id, tc.function.name,
\* tc.function.arguments
ToolCall(id, name, arguments) ==
    [id |-> id, function |-> [name |-> name, arguments |-> arguments]]

(***************************************************************************)
(* The conversation: chat_with_groq and the clear button of main.          *)
(***************************************************************************)
SYSTEM_PROMPT == "You are a helpful AI assistant with access to weather information."

UserTexts == {"What is the weather in London?"}

\* message.content of a completion response
Contents == {"Hello!", None}

\* str(e) of what completions.create raises
CompletionErrors == {"Connection error."}

\* what the session draws for a tool call and for the weather provider
SessionPayloads == {CityPayload("London"), "{" \o Quote \o "city" \o Quote \o ": "}
SessionOutcomes ==
    {[kind |-> "response", status |-> 200, body |-> [json |-> TRUE, data |-> FullData]],
     [kind |-> "response", status |-> 404, body |-> [json |-> TRUE, data |-> ErrorData]]}

\* the provider assigns each request an identifier it has not used before
IdOf(n) == "call_" \o Str(n)

UserMessage(text) == [role |-> "user", content |-> text]
AssistantMessage(content) == [role |-> "assistant", content |-> content]

\* lines 152-165
ToolRequestMessage(content, tcs) ==
    [role |-> "assistant",
     content |-> IF content = None THEN "" ELSE content,
     tool_calls |-> [k \in 1..Len(tcs) |->
                        [id |-> tcs[k].id,
                         type |-> "function",
                         function |-> [name |-> tcs[k].function.name,
                                       arguments |-> tcs[k].function.arguments]]]]

\* lines 170-174
ToolMessage(id, content) == [role |-> "tool", tool_call_id |-> id, content |-> content]

\* lines 135-137 and 176-178
ApiMessages(msgs) == <<[role |-> "system", content |-> SYSTEM_PROMPT]>> \o msgs

\* lines 140-147
FirstRequest(msgs) ==
    [messages |-> ApiMessages(msgs), tools |-> {"get_weather"}, tool_choice |-> "auto",
     max_tokens |-> 1024]

\* variant of FinalRequest: the second call declares the tools again
FinalRequest_WithTools(msgs) ==
    [messages |-> ApiMessages(msgs), tools |-> {"get_weather"}, tool_choice |-> "auto",
     max_tokens |-> 1024]

\* lines 180-185
FinalRequest(msgs) ==
    [messages |-> ApiMessages(msgs), tools |-> {}, tool_choice |-> None,
     max_tokens |-> 1024]

\* line 200
ErrorMessage(e) == "Error communicating with Groq API: " \o e

\* variant of HandleException: the error is returned but not recorded
HandleException_Silent(msgs, e) == msgs

\* variant of HandleException: the raw error text is recorded, not the diagnostic
HandleException_Raw(msgs, e) == Append(msgs, [role |-> "assistant", content |-> e])

\* variant of HandleException: the turn's latest message is rolled back first
HandleException_Rollback(msgs, e) ==
    Append(SubSeq(msgs, 1, Len(msgs) - 1),
           [role |-> "assistant", content |-> "Error communicating with Groq API: " \o e])

\* lines 199-205: the history the except clause leaves
HandleException(msgs, e) == Append(msgs, AssistantMessage(ErrorMessage(e)))

\* variant of AppendFinal: an answer without text is not recorded
AppendFinal_SkipNone(msgs, final_message) ==
    IF final_message = None THEN msgs
    ELSE Append(msgs, [role |-> "assistant", content |-> final_message])

\* lines 192-195
AppendFinal(msgs, final_message) == Append(msgs, AssistantMessage(final_message))

\* variant of ClearedMessages: only the latest message is discarded
ClearedMessages_DropLast(msgs) == SubSeq(msgs, 1, Len(msgs) - 1)

\* line 256
ClearedMessages(msgs) == <<>>

NoRequest == [messages |-> <<>>, tools |-> {}, tool_choice |-> None, max_tokens |-> 0]

SessionInit ==
    /\ messages = <<>>
    /\ pc = "AwaitingInput"
    /\ request = NoRequest
    /\ tool_calls = <<>>
    /\ i = 0
    /\ returned = None
    /\ nextId = 1
    /\ turns = 0
    /\ toolTurns = 0
    /\ calls = 0
    /\ dispatched = 0
    /\ lookups = 0
    /\ turnBase = 0
    /\ last = "start"
    /\ clears = 0
    /\ dropped = 0

UnitIdle ==
    /\ u_call = ToolCall("call_0", "get_weather", "{}")
    /\ u_city = "London"
    /\ u_outcome = TransportFailure
    /\ u_dispatch = <<>>
    /\ u_lookup = <<>>

Init == SessionInit /\ UnitIdle

\* lines 130-137: main hands the prompt to chat_with_groq
SubmitTurn(user_message) ==
    /\ pc = "AwaitingInput"
    /\ turns < MaxTurns
    /\ messages' = Append(messages, UserMessage(user_message))
    /\ pc' = "CompletionRequested"
    /\ turns' = turns + 1
    /\ calls' = 0
    /\ dispatched' = 0
    /\ lookups' = 0
    /\ turnBase' = Len(messages)
    /\ tool_calls' = <<>>
    /\ i' = 0
    /\ last' = "user"
    /\ clears' = 0
    /\ dropped' = 0
    /\ UNCHANGED <<request, returned, nextId, toolTurns, unitVars>>

\* lines 140-147 raise; lines 199-205
FirstCompletionRaises(e) ==
    /\ pc = "CompletionRequested"
    /\ request' = FirstRequest(messages)
    /\ calls' = calls + 1
    /\ messages' = HandleException(messages, e)
    /\ returned' = ErrorMessage(e)
    /\ pc' = "AwaitingInput"
    /\ last' = "call1_raised"
    /\ UNCHANGED <<tool_calls, i, nextId, turns, toolTurns, dispatched, lookups,
                   turnBase, clears, dropped, unitVars>>

\* lines 140-151, 189-197: the response carries no tool call
FirstCompletionDirect(content) ==
    /\ pc = "CompletionRequested"
    /\ request' = FirstRequest(messages)
    /\ calls' = calls + 1
    /\ messages' = AppendFinal(messages, content)
    /\ returned' = content
    /\ pc' = "AwaitingInput"
    /\ last' = "call1_direct"
    /\ UNCHANGED <<tool_calls, i, nextId, turns, toolTurns, dispatched, lookups,
                   turnBase, clears, dropped, unitVars>>

\* lines 140-165: the response carries k >= 1 tool calls
FirstCompletionTools(content, k, names, payloads) ==
    LET tcs == [j \in 1..k |-> ToolCall(IdOf(nextId + j - 1), names[j], payloads[j])]
    IN  /\ pc = "CompletionRequested"
        /\ nextId + k - 1 <= MaxIds
        /\ request' = FirstRequest(messages)
        /\ calls' = calls + 1
        /\ messages' = Append(messages, ToolRequestMessage(content, tcs))
        /\ tool_calls' = tcs
        /\ i' = 0
        /\ nextId' = nextId + k
        /\ toolTurns' = toolTurns + 1
        /\ pc' = "ToolsExecuting"
        /\ last' = "call1_tools"
        /\ UNCHANGED <<returned, turns, dispatched, lookups, turnBase, clears, dropped, unitVars>>

\* lines 167-174: one iteration of the loop, execute_tool_call returns
DispatchReturns(outcome) ==
    /\ pc = "ToolsExecuting"
    /\ i < Len(tool_calls)
    /\ LET tool_call == tool_calls[i + 1]
           r == execute_tool_call(tool_call, outcome)
       IN  /\ ~r.raised
           /\ messages' = Append(messages, ToolMessage(tool_call.id, r.value))
           /\ lookups' = lookups + r.lookups
    /\ dispatched' = dispatched + 1
    /\ i' = i + 1
    /\ pc' = IF i + 1 = Len(tool_calls) THEN "FinalCompletionRequested" ELSE "ToolsExecuting"
    /\ last' = "tool_returned"
    /\ UNCHANGED <<request, tool_calls, returned, nextId, turns, toolTurns, calls,
                   turnBase, clears, dropped, unitVars>>

\* line 168 raises inside the try of line 139; lines 199-205
DispatchRaises(outcome) ==
    /\ pc = "ToolsExecuting"
    /\ i < Len(tool_calls)
    /\ LET r == execute_tool_call(tool_calls[i + 1], outcome)
       IN  /\ r.raised
           /\ messages' = HandleException(messages, r.exc)
           /\ returned' = ErrorMessage(r.exc)
           /\ lookups' = lookups + r.lookups
    /\ dispatched' = dispatched + 1
    /\ pc' = "AwaitingInput"
    /\ last' = "tool_raised"
    /\ UNCHANGED <<request, tool_calls, i, nextId, turns, toolTurns, calls,
                   turnBase, clears, dropped, unitVars>>

\* lines 176-197: the second completion returns; its tool_calls are not read
FinalCompletionReturns(content, final_tool_calls) ==
    /\ pc = "FinalCompletionRequested"
    /\ request' = FinalRequest(messages)
    /\ calls' = calls + 1
    /\ messages' = AppendFinal(messages, content)
    /\ returned' = content
    /\ pc' = "AwaitingInput"
    /\ last' = IF Len(final_tool_calls) > 0 THEN "call2_returned_tools" ELSE "call2_returned"
    /\ UNCHANGED <<tool_calls, i, nextId, turns, toolTurns, dispatched, lookups,
                   turnBase, clears, dropped, unitVars>>

\* lines 176-185 raise; lines 199-205
FinalCompletionRaises(e) ==
    /\ pc = "FinalCompletionRequested"
    /\ request' = FinalRequest(messages)
    /\ calls' = calls + 1
    /\ messages' = HandleException(messages, e)
    /\ returned' = ErrorMessage(e)
    /\ pc' = "AwaitingInput"
    /\ last' = "call2_raised"
    /\ UNCHANGED <<tool_calls, i, nextId, turns, toolTurns, dispatched, lookups,
                   turnBase, clears, dropped, unitVars>>

\* lines 255-257: the button resets the history and reruns the script
ClearHistory ==
    /\ pc = "AwaitingInput"
    /\ clears < MaxClears
    /\ messages' = ClearedMessages(messages)
    /\ request' = NoRequest
    /\ tool_calls' = <<>>
    /\ i' = 0
    /\ returned' = None
    /\ nextId' = 1
    /\ turns' = 0
    /\ toolTurns' = 0
    /\ calls' = 0
    /\ dispatched' = 0
    /\ lookups' = 0
    /\ turnBase' = 0
    /\ last' = "clear"
    /\ clears' = clears + 1
    /\ dropped' = dropped + Len(messages)
    /\ pc' = "AwaitingInput"
    /\ UNCHANGED unitVars

TurnStep ==
    \/ \E e \in CompletionErrors : FirstCompletionRaises(e)
    \/ \E content \in Contents : FirstCompletionDirect(content)
    \/ \E content \in Contents, k \in 1..MaxIds :
          \E names \in [1..k -> ToolNames], payloads \in [1..k -> SessionPayloads] :
              FirstCompletionTools(content, k, names, payloads)
    \/ \E outcome \in SessionOutcomes : DispatchReturns(outcome)
    \/ \E outcome \in SessionOutcomes : DispatchRaises(outcome)
    \/ \E content \in Contents :
          \E final_tool_calls \in {<<>>, <<ToolCall(IdOf(nextId), "get_weather",
                                                     CityPayload("London"))>>} :
              FinalCompletionReturns(content, final_tool_calls)
    \/ \E e \in CompletionErrors : FinalCompletionRaises(e)

Next ==
    \/ \E user_message \in UserTexts : SubmitTurn(user_message)
    \/ TurnStep
    \/ ClearHistory

Spec == Init /\ [][Next]_vars

(***************************************************************************)
(* get_weather and execute_tool_call on their own: the inputs are drawn    *)
(* in the initial state and each function is applied once.                 *)
(***************************************************************************)
UnitInit ==
    /\ SessionInit
    /\ u_call \in {ToolCall("call_1", name, payload) : name \in ToolNames, payload \in Payloads}
    /\ u_city \in Cities
    /\ u_outcome \in Outcomes
    /\ u_dispatch = <<>>
    /\ u_lookup = <<>>

RunDispatch ==
    /\ u_dispatch = <<>>
    /\ u_dispatch' = <<execute_tool_call(u_call, u_outcome)>>
    /\ UNCHANGED <<u_call, u_city, u_outcome, u_lookup, sessionVars>>

RunLookup ==
    /\ u_lookup = <<>>
    /\ u_lookup' = <<get_weather(u_city, u_outcome)>>
    /\ UNCHANGED <<u_call, u_city, u_outcome, u_dispatch, sessionVars>>

UnitNext == RunDispatch \/ RunLookup

UnitSpec == UnitInit /\ [][UnitNext]_vars

(***************************************************************************)
(* Properties.                                                             *)
(***************************************************************************)
IsToolRequest(m) == m.role = "assistant" /\ "tool_calls" \in DOMAIN m

IsPlainAssistant(m) == m.role = "assistant" /\ "tool_calls" \notin DOMAIN m

ResultsAfter(h, p, id) ==
    {q \in (p + 1)..Len(h) : h[q].role = "tool" /\ h[q].tool_call_id = id}

Paired(h) ==
    \A p \in 1..Len(h) :
        IsToolRequest(h[p]) =>
            \A k \in 1..Len(h[p].tool_calls) :
                Cardinality(ResultsAfter(h, p, h[p].tool_calls[k].id)) = 1

IsPrefix(s, t) == Len(s) <= Len(t) /\ SubSeq(t, 1, Len(s)) = s

Diagnostics == {"Error communicating with Groq API: " \o e : e \in CompletionErrors}

\* C1: in the history submitted by every completion call, each tool request of
\* an assistant message is followed by exactly one tool result with its identifier.
C1_SubmittedHistoryPaired == Paired(request.messages)

\* C2: when a turn whose first response carried k >= 1 tool requests has returned,
\* the history it gained holds the request message, then the k tool results with
\* the request identifiers in order, and only then further assistant messages.
C2_ToolExchangeComplete ==
    (/\ pc = "AwaitingInput"
     /\ turns > 0
     /\ Len(messages) >= turnBase + 2
     /\ IsToolRequest(messages[turnBase + 2]))
    => LET req == messages[turnBase + 2]
           k == Len(req.tool_calls)
       IN  /\ Len(messages) > turnBase + 2 + k
           /\ \A j \in 1..k :
                 /\ messages[turnBase + 2 + j].role = "tool"
                 /\ messages[turnBase + 2 + j].tool_call_id = req.tool_calls[j].id
           /\ \A q \in (turnBase + 3 + k)..Len(messages) : IsPlainAssistant(messages[q])

\* C3: an error raised by the first or the second completion call is caught:
\* exactly one assistant message holding the diagnostic is appended to the
\* otherwise untouched history, the diagnostic is returned, and the session is
\* back at the point where the next turn is accepted.
C3_CompletionErrorCaught ==
    /\ [](last \in {"call1_raised", "call2_raised"} =>
            /\ pc = "AwaitingInput"
            /\ (turns < MaxTurns => ENABLED (\E t \in UserTexts : SubmitTurn(t))))
    /\ [][last' \in {"call1_raised", "call2_raised"} /\ calls' = calls + 1 =>
            /\ returned' \in Diagnostics
            /\ messages' = Append(messages, [role |-> "assistant", content |-> returned'])]_vars

\* a turn has completed normally on top of a history that holds the diagnostic
\* of a failed second completion call and the messages that turn had appended
C3_Witness ==
    /\ pc = "AwaitingInput"
    /\ turns = 2
    /\ last = "call1_direct"
    /\ Len(messages) = 6
    /\ IsToolRequest(messages[2])
    /\ messages[3].role = "tool"
    /\ messages[4].content \in Diagnostics
    /\ messages[5].role = "user"

\* C4: for a request whose name is not get_weather, whatever its payload,
\* execute_tool_call returns "Unknown tool", does not raise and does not call
\* get_weather.
C4_UnknownToolMarker ==
    (Len(u_dispatch) = 1 /\ u_call.function.name # "get_weather") =>
        /\ ~u_dispatch[1].raised
        /\ u_dispatch[1].value = "Unknown tool"
        /\ u_dispatch[1].lookups = 0

\* C5 as stated: get_weather returns the success record only for a well-formed
\* 2xx body, a failure whose reason contains the city exactly when the status is
\* 404, and a generic failure otherwise.
C5_AsStated ==
    Len(u_lookup) = 1 =>
        LET r == u_lookup[1]
            responded == u_outcome.kind = "response"
        IN  /\ r.success <=> (/\ responded
                              /\ u_outcome.status \in 200..299
                              /\ WellFormed(u_outcome.body))
            /\ (~r.success /\ Contains(r.error, u_city))
                    <=> (responded /\ u_outcome.status = 404)

\* C5 (amended): get_weather always returns a record; it is the success record
\* exactly when the status is outside 400..599 and the body is well-formed, the
\* "City '<city>' not found" failure exactly when the status is 404, and in every
\* other case a failure with one of the two generic prefixes.
C5_LookupTotal ==
    Len(u_lookup) = 1 =>
        LET r == u_lookup[1]
            responded == u_outcome.kind = "response"
            notFound == "City '" \o u_city \o "' not found. Please check the spelling."
            http == "HTTP error occurred: "
            fetch == "Error fetching weather data: "
        IN  /\ r.success <=> (/\ responded
                              /\ ~(u_outcome.status \in 400..599)
                              /\ WellFormed(u_outcome.body))
            /\ r.success => r.data.city = u_outcome.body.data.name
            /\ (~r.success /\ r.error = notFound)
                    <=> (responded /\ u_outcome.status = 404)
            /\ (~r.success /\ r.error # notFound) =>
                    \/ SubSeq(r.error, 1, Len(http)) = http
                    \/ SubSeq(r.error, 1, Len(fetch)) = fetch

\* the lookup has answered a 404 with the failure naming the queried city
C5_Witness ==
    /\ Len(u_lookup) = 1
    /\ u_outcome.kind = "response"
    /\ u_outcome.status = 404
    /\ ~u_lookup[1].success
    /\ Contains(u_lookup[1].error, u_city)

\* C6: after N turns since the empty history, none of which saw a tool request,
\* the history holds 2*N messages alternating user, assistant.
C6_TwoMessagesPerTurn ==
    (pc = "AwaitingInput" /\ toolTurns = 0) =>
        /\ Len(messages) = 2 * turns
        /\ \A n \in 1..turns :
              /\ messages[2 * n - 1].role = "user"
              /\ IsPlainAssistant(messages[2 * n])

\* two turns without tool request have returned, the first of them failed
C6_Witness ==
    /\ pc = "AwaitingInput"
    /\ toolTurns = 0
    /\ turns = 2
    /\ Len(messages) = 4
    /\ messages[2].content \in Diagnostics
    /\ messages[4].content \notin Diagnostics

\* steps chat_with_groq has left at most, by position
Rank(p) ==
    CASE p = "CompletionRequested" -> 3
      [] p = "ToolsExecuting" -> 2
      [] p = "FinalCompletionRequested" -> 1
      [] p = "AwaitingInput" -> 0

\* C7: every turn terminates (inside a turn a step is always possible, and each
\* step moves to a later position or shortens the rest of the tool loop), and
\* when it has returned the last message of the history is an assistant message
\* without tool requests whose content is the returned text.
C7_TurnEndsWithReturnedText ==
    /\ [](pc # "AwaitingInput" => ENABLED TurnStep)
    /\ []((pc = "AwaitingInput" /\ turns > 0) =>
            /\ Len(messages) > 0
            /\ IsPlainAssistant(messages[Len(messages)])
            /\ messages[Len(messages)].content = returned)
    /\ [][pc # "AwaitingInput" =>
            \/ Rank(pc') < Rank(pc)
            \/ /\ pc' = pc
               /\ Len(tool_calls') - i' >= 0
               /\ Len(tool_calls') - i' < Len(tool_calls) - i]_vars

\* a turn has returned through the except clause after a tool call raised
C7_Witness ==
    /\ pc = "AwaitingInput"
    /\ last = "tool_raised"
    /\ dispatched = 2
    /\ returned = messages[Len(messages)].content

\* C8: every step leaves the earlier history as a prefix of the new one and
\* adds at most one message; only the clear button does otherwise.
C8_AppendOnly ==
    [][\/ ClearHistory
       \/ /\ IsPrefix(messages, messages')
          /\ Len(messages') <= Len(messages) + 1]_vars

\* user message, request message, tool result and diagnostic have been appended
C8_Witness ==
    /\ pc = "AwaitingInput"
    /\ last = "call2_raised"
    /\ Len(messages) = turnBase + 4
    /\ turnBase > 0

\* C9: after one clear click or several in a row the history is empty and the
\* session is where a fresh one starts.
C9_ClearIdempotent ==
    clears >= 1 => (messages = <<>> /\ pc = "AwaitingInput")

\* the button was clicked twice in a row on a history that held messages
C9_Witness == clears = 2 /\ dropped >= 4 /\ messages = <<>>

\* C10: a turn makes at most two completion calls; the first declares the tool;
\* the second is made only after every request of the first response has been
\* dispatched, declares no tool and dispatches nothing; dispatcher and lookup
\* run only between the two; a turn answered directly makes no lookup and adds
\* one user and one assistant message.
C10_TurnStateMachine ==
    /\ [](calls <= 2)
    /\ []((pc = "AwaitingInput" /\ last = "call1_direct") =>
            /\ calls = 1
            /\ dispatched = 0
            /\ lookups = 0
            /\ Len(messages) = turnBase + 2
            /\ messages[turnBase + 1].role = "user"
            /\ IsPlainAssistant(messages[turnBase + 2]))
    /\ [][/\ calls' > calls => calls' = calls + 1
          /\ (calls = 0 /\ calls' = 1) => request'.tools = {"get_weather"}
          /\ (calls = 1 /\ calls' = 2) =>
                /\ Len(tool_calls) >= 1
                /\ dispatched = Len(tool_calls)
                /\ request'.tools = {}
                /\ request'.messages = <<[role |-> "system", content |-> SYSTEM_PROMPT]>>
                                            \o messages
                /\ dispatched' = dispatched
                /\ lookups' = lookups
          /\ (dispatched' > dispatched \/ lookups' > lookups) =>
                (calls = 1 /\ calls' = 1)]_vars

\* the second response carried a tool request after two dispatched requests
C10_Witness ==
    /\ last = "call2_returned_tools"
    /\ calls = 2
    /\ dispatched = 2
    /\ lookups >= 1

====
